---- MODULE Spec2Model ----
(***************************************************************************)
(* State containers of atsmanager: ComponentStateManager                  *)
(* (src/components/componentState.ts), the useState tuple and the types   *)
(* (index.ts), GlobalStateManager (globalState.ts), ProxyStateManager     *)
(* (proxyState.ts), StateMachine (src/components/stateMachine.ts) and the *)
(* ATSManager class that holds one manager of each kind (index.ts).       *)
(*                                                                         *)
(* One run exercises one container (sut), the way each test file builds   *)
(* one container and drives it; sut = "registry" drives two ATSManagers.  *)
(* Every public method is one action; the                                *)
(* listeners and the onEnter/onExit callbacks are observers that record   *)
(* their invocation (jest.fn() in the tests): they neither raise nor call *)
(* back into the container, except in the runs componentActive,           *)
(* globalActive and proxyActive, where listener 1 throws or changes the   *)
(* state of the container when it is called.                               *)
(*                                                                         *)
(* History variables: op (the last operation and the Error it threw),     *)
(* invoked (the callback calls that operation made, in order), released,  *)
(* applied, initial, batch, seq, mutated, mSupplied.                       *)
(***************************************************************************)
EXTENDS Integers, Sequences, FiniteSets, TLC

\* ------------------------------------------------------------- bounds
MaxCount == 1
MaxListeners == 2
MaxOps == 2
MaxInstances == 2
MaxStates == 3
MaxArray == 2

\* ------------------------------------------------------------- values

Listeners == 1..MaxListeners

\* JavaScript values the containers are fed.
Num(n) == [t |-> "number", n |-> n]
Undefined == [t |-> "undefined", n |-> 0]
Func == [t |-> "function", n |-> 0]
EmptyObject == [t |-> "object", n |-> 0]
Null == [t |-> "null", n |-> 0]
\* The object { age: n }, held as a member of another object.
Nested(n) == [t |-> "nested", n |-> n]
\* A listener called with no arguments.
NoArgs == [t |-> "noargs", n |-> 0]

Numbers == {Num(n) : n \in 0..MaxCount}

Nesteds == {Nested(n) : n \in 0..MaxCount}

\* The state type of the proxy tests, { count: number }, with two optional
\* members: cb, absent/undefined or a function, and user, absent/undefined
\* or the object { age: number }.  A run uses one of two shapes: the flat
\* { count, cb? } or the nested { count: 0, user: { age } }.
Keys == <<"count", "cb", "user">>
PropVals(k) ==
  IF k = "count" THEN Numbers
  ELSE IF k = "cb" THEN {Undefined, Func}
  ELSE {Undefined} \cup Nesteds
FlatVals ==
  {[count |-> c, cb |-> f, user |-> Undefined] :
     c \in Numbers, f \in {Undefined, Func}}
NestedVals ==
  {[count |-> Num(0), cb |-> Undefined, user |-> u] : u \in Nesteds}
ObjVals == FlatVals \cup NestedVals
Shape(o) == IF o["user"].t = "nested" THEN "nested" ELSE "flat"

\* typeof v, for the primitives and for the objects above.
IsRecordOfState(v) == "count" \in DOMAIN v
TypeOf(v) ==
  IF IsRecordOfState(v) \/ v.t \in {"null", "nested"} THEN "object" ELSE v.t

\* JSON.stringify of a value: undefined for undefined and for a function
\* (modelled as the empty text); otherwise a text that tells a number n from
\* the object { age: n }.
JsonValue(v) ==
  IF v.t \in {"undefined", "function"} THEN <<>> ELSE <<v.t, v.n>>

\* JSON.stringify of an object: its members in order, those whose value has
\* no JSON text left out.
JsonObject(o) ==
  LET members == [i \in 1..Len(Keys) |-> [k |-> Keys[i], v |-> JsonValue(o[Keys[i]])]]
  IN  SelectSeq(members, LAMBDA m : m.v # <<>>)

\* SetStateAction<T> = T | ((prevState: T) => T).  The functions are those of
\* the tests: prev => prev + 1 on a number, prev => ({count: prev.count + 1})
\* on an object; and one that reads a member JSON.stringify leaves out,
\* prev => ({count: prev.cb ? 1 : 0}).
Lit(v) == [f |-> "lit", v |-> v]
Inc == [f |-> "inc", v |-> Undefined]
HasCb == [f |-> "hasCb", v |-> Undefined]
\* No action: the operation takes none.
None == [f |-> "none", v |-> Undefined]
\* No action, and the callback given to subscribe was registered already.
Again == [f |-> "again", v |-> Undefined]

isFunction(action) == action.f # "lit"

\* action(prev) for a function action on a number.
CallNum(action, prev) == IF action.f = "inc" THEN Num(prev.n + 1) ELSE prev

\* action(prev) for a function action on an object.
CallObj(action, prev) ==
  IF action.f = "inc"
  THEN [count |-> Num(prev["count"].n + 1), cb |-> Undefined,
        user |-> Undefined]
  ELSE IF action.f = "hasCb"
  THEN [count |-> Num(IF prev["cb"].t = "function" THEN 1 ELSE 0),
        cb |-> Undefined, user |-> Undefined]
  ELSE prev

\* The model keeps numbers within 0..MaxCount: an increment needs room.
NumRoom(action, prev) ==
  action.f = "inc" => (prev.t = "number" /\ prev.n < MaxCount)
ObjRoom(action, prev) ==
  action.f = "inc" => prev["count"].n < MaxCount

NumActions == {Lit(v) : v \in Numbers} \cup {Inc}
ObjActions == {Lit(o) : o \in ObjVals} \cup {Inc, HasCb}

\* ------------------------------------------------- Set<Listener>

Range(s) == {s[i] : i \in 1..Len(s)}

\* Mutant: the listeners are kept in a list.
SetAdd_append(s, x) == Append(s, x)

\* Set.prototype.add: insertion order, no duplicate.
SetAdd(s, x) == IF x \in Range(s) THEN s ELSE Append(s, x)

\* Mutant: the closure deletes nothing.
SetDelete_nothing(s, x) == s

\* Set.prototype.delete.
SetDelete(s, x) == SelectSeq(s, LAMBDA y : y # x)

\* Set.prototype.forEach(listener => listener(arg)): one call per member, in
\* insertion order; seen is the state getState() returns during the call.
InvokeEach(s, arg, seen) ==
  [i \in 1..Len(s) |-> [l |-> s[i], arg |-> arg, seen |-> seen]]

InvokedSet(calls) == {calls[i].l : i \in 1..Len(calls)}
TimesInvoked(calls, l) == Cardinality({i \in 1..Len(calls) : calls[i].l = l})

VARIABLES
  sut,                    \* the container this run builds and drives
  cState, cListeners,     \* ComponentStateManager
  uState, uListeners,     \* the useState closure
  gInst, gState, gListeners,   \* GlobalStateManager.instance
  pState, pListeners, isBatchingUpdates, pendingNotifications, hasStateChanged,
  mStates, mCurrent, mSupplied,   \* StateMachine
  rKind, rRef, rState,    \* ATSManager instances
  active,                 \* what listener 1 does when it is called
  op, invoked, released, applied, initial, batch, seq, mutated

compVars == <<cState, cListeners>>
useVars == <<uState, uListeners>>
globVars == <<gInst, gState, gListeners>>
proxyVars == <<pState, pListeners, isBatchingUpdates, pendingNotifications,
               hasStateChanged>>
machVars == <<mStates, mCurrent, mSupplied>>
regVars == <<rKind, rRef, rState>>
vars == <<sut, compVars, useVars, globVars, proxyVars, machVars, regVars,
          active, op, invoked, released, applied, initial, batch, seq,
          mutated>>

Containers ==
  {"component", "useState", "global", "proxy", "stateMachine", "registry",
   "componentActive", "globalActive", "proxyActive"}

\* A run on a container, with listeners that only record their calls or, in
\* the Active runs, with listener 1 doing more than that.
Drives(container) == sut = container \/ sut = container \o "Active"

\* What listener 1 does when it is called, besides recording the call:
\* "record", nothing; "raise", it throws an Error, and "calm", it does not,
\* the test having switched the throwing off; "setState", it calls
\* setState({count: 0}) on the container; "write", it assigns
\* getState().count = 0.  The other listeners record their calls.
Behaviours(container) ==
  CASE container = "proxyActive" -> {"raise", "setState", "write"}
    [] container \in {"componentActive", "globalActive"} -> {"raise"}
    [] OTHER -> {"record"}
Does(l) == IF l = 1 THEN active ELSE "record"

\* The Error a listener throws.
ListenerError == "listener"

\* The place of listener 1 in a Set that forEach walks, when listener 1 does
\* more than record; 0 otherwise.
ActiveAt(s) ==
  IF active \in {"record", "calm"} \/ 1 \notin {s[i] : i \in 1..Len(s)} THEN 0
  ELSE CHOOSE i \in 1..Len(s) : s[i] = 1

\* Mutant: forEach goes on after a listener threw.
UpToRaise_all(calls) == calls

\* The calls forEach makes of those it would make were no Error thrown: a
\* listener that throws ends the iteration.
UpToRaise(calls) ==
  LET at == {i \in 1..Len(calls) : Does(calls[i].l) = "raise"}
  IN  IF at = {} THEN calls
      ELSE SubSeq(calls, 1, CHOOSE i \in at : \A j \in at : i <= j)
Raised(calls) == \E i \in 1..Len(calls) : Does(calls[i].l) = "raise"

\* The ghosts of the runs with recording listeners are kept off in the
\* Active runs.
Kept(x, off) == IF sut = "proxy" THEN x ELSE off

\* Two ATSManager instances, and the keys of their stateManagers maps.
Managers == {1, 2}
Kinds == {"global", "proxy", "component", "stateMachine"}

NoBatch ==
  [open |-> FALSE, subs |-> <<>>, onlySets |-> TRUE, any |-> FALSE,
   last |-> Undefined]

\* A batch in which something other than setState was called.
Mixed ==
  [open |-> TRUE, subs |-> <<>>, onlySets |-> FALSE, any |-> FALSE,
   last |-> Undefined]

\* batch records the batch that is open, or the one the last operation
\* closed: the listeners at its beginBatchUpdates, whether only setState
\* was called in it, whether a setState changed the state, and the state
\* the last such setState stored.
BatchAfterOther == IF batch.open THEN Mixed ELSE NoBatch
BatchAfterNoChange == IF batch.open THEN batch ELSE NoBatch
BatchAfterSet(newState) ==
  IF batch.open /\ batch.onlySets
  THEN [batch EXCEPT !.any = TRUE, !.last = newState]
  ELSE BatchAfterOther

\* mutated records the batch that is open, or the one the last operation
\* closed: the JSON text of the state at its beginBatchUpdates, and whether
\* a setState, a property write or a nested write made in it changed the
\* JSON text of the state.
NoMutation == [open |-> FALSE, any |-> FALSE, began |-> <<>>]
MutatedAfterOther == IF mutated.open THEN mutated ELSE NoMutation

\* The last operation: its name, its listener and action arguments, and the
\* message of the Error it threw ("" when it returned).
SubscribeNote(l, ls) == IF l \in {ls[i] : i \in 1..Len(ls)} THEN Again ELSE None
Op(name, l, a) == [name |-> name, l |-> l, a |-> a, err |-> ""]
Throw(name, l, a, message) == [name |-> name, l |-> l, a |-> a, err |-> message]

\* released[l]: "never" subscribed; "subscribed"; "cancelled" when the
\* closure subscribe(l) returned was called right after that subscribe;
\* "unsubscribed" when it was called later.
Subscribed(l) == [released EXCEPT ![l] = "subscribed"]
Released(l) ==
  [released EXCEPT ![l] =
     IF op.name = "subscribe" /\ op.l = l THEN "cancelled" ELSE "unsubscribed"]

\* seq follows a run that is a sequence of setState calls made right after
\* construction, outside a batch, the listeners subscribed before the first
\* call: fold is the fold of the actions so far over the constructor's
\* value, calls the number of calls, changes the number of them that changed
\* the fold's JSON text,
\* hits[l] the number of times l was invoked by the calls, jsonOnly whether
\* no action read a member JSON.stringify leaves out.  Any other operation
\* ends the sequence.
SeqOff ==
  [on |-> FALSE, started |-> FALSE, fold |-> Undefined, calls |-> 0,
   changes |-> 0,
   hits |-> [l \in Listeners |-> 0], jsonOnly |-> TRUE]
SeqStart(value) == [SeqOff EXCEPT !.on = TRUE, !.fold = value]
SeqStep(action, value) == IF action.f = "lit" THEN action.v ELSE CallObj(action, value)
SeqAfterSet(action, calls) ==
  IF seq.on /\ seq.calls < MaxOps
  THEN LET next == SeqStep(action, seq.fold)
       IN  [on |-> TRUE, started |-> TRUE, fold |-> next,
            calls |-> seq.calls + 1,
            changes |-> seq.changes +
                        (IF JsonObject(next) # JsonObject(seq.fold) THEN 1 ELSE 0),
            hits |-> [l \in Listeners |-> seq.hits[l] + TimesInvoked(calls, l)],
            jsonOnly |-> seq.jsonOnly /\ action.f # "hasCb"]
  ELSE SeqOff
SeqAfterSubscription == IF seq.on /\ ~seq.started THEN seq ELSE SeqOff

Init ==
  /\ sut \in Containers
  /\ active \in Behaviours(sut)
  /\ mutated = NoMutation
  /\ initial \in (IF sut \in {"component", "useState"} THEN Numbers ELSE {Num(0)})
  /\ cState = initial
  /\ cListeners = <<>>
  /\ uState = initial
  /\ uListeners = <<>>
  /\ gInst = 0
  /\ gState = Undefined
  /\ gListeners = <<>>
  /\ pState = Undefined
  /\ pListeners = <<>>
  /\ isBatchingUpdates = FALSE
  /\ pendingNotifications = <<>>
  /\ hasStateChanged = FALSE
  /\ op = Op("start", 0, None)
  /\ invoked = <<>>
  /\ released = [l \in Listeners |-> "never"]
  /\ applied = <<>>
  /\ batch = NoBatch
  /\ seq = SeqOff
  /\ mStates = <<>>
  /\ mCurrent = 0
  /\ mSupplied = <<>>
  /\ rKind \in (IF sut = "registry" THEN Kinds ELSE {"none"})
  /\ rRef = [m \in Managers |-> [k \in Kinds |-> 0]]
  /\ rState = [m \in Managers |-> [k \in Kinds |-> Undefined]]

\* ------------------------------------- ComponentStateManager (plain)

\* Mutant: a function action is not applied, the value is kept.
Component_newState_keep(action, cur) ==
  IF isFunction(action) THEN cur ELSE action.v

\* The value setState stores: action(currentState) or the literal.
Component_newState(action, cur) ==
  IF isFunction(action) THEN CallNum(action, cur) ELSE action.v

\* Mutant: listeners are notified only when the value changed.
Component_notify_onChange(ls, old, new) ==
  IF old = new THEN <<>> ELSE InvokeEach(ls, NoArgs, new)

\* this.listeners.forEach((listener) => listener()), run after the store.
Component_notify(ls, old, new) == InvokeEach(ls, NoArgs, new)

Component_setState(action) ==
  /\ Drives("component")
  /\ Len(applied) < MaxOps
  /\ NumRoom(action, cState)
  /\ LET new == Component_newState(action, cState)
         calls == Component_notify(cListeners, cState, new)
     IN  /\ cState' = new
         /\ invoked' = UpToRaise(calls)
         /\ op' = IF Raised(calls)
                  THEN Throw("setState", 0, action, ListenerError)
                  ELSE Op("setState", 0, action)
  /\ applied' = Append(applied, action)
  /\ UNCHANGED <<sut, active, regVars, machVars, seq, cListeners, useVars, globVars, proxyVars, mutated, released,
                 initial, batch>>

Component_subscribe(l) ==
  /\ Drives("component")
  /\ cListeners' = SetAdd(cListeners, l)
  /\ released' = Subscribed(l)
  /\ op' = Op("subscribe", l, SubscribeNote(l, cListeners))
  /\ invoked' = <<>>
  /\ UNCHANGED <<sut, active, regVars, machVars, seq, cState, useVars, globVars, proxyVars, mutated, applied, initial,
                 batch>>

\* The closure subscribe(l) returned: () => this.listeners.delete(callback).
Component_unsubscribe(l) ==
  /\ Drives("component")
  /\ released[l] # "never"
  /\ cListeners' = SetDelete(cListeners, l)
  /\ released' = Released(l)
  /\ op' = Op("unsubscribe", l, None)
  /\ invoked' = <<>>
  /\ UNCHANGED <<sut, active, regVars, machVars, seq, cState, useVars, globVars, proxyVars, mutated, applied, initial,
                 batch>>

\* ------------------------------------------------ useState (plain)

UseState_newState(newValue, cur) ==
  IF isFunction(newValue) THEN CallNum(newValue, cur) ELSE newValue.v

\* listeners.forEach((listener) => listener()), run after the store.
UseState_notify(ls, old, new) == InvokeEach(ls, NoArgs, new)

UseState_setState(newValue) ==
  /\ sut = "useState"
  /\ Len(applied) < MaxOps
  /\ NumRoom(newValue, uState)
  /\ LET new == UseState_newState(newValue, uState)
     IN  /\ uState' = new
         /\ invoked' = UseState_notify(uListeners, uState, new)
  /\ applied' = Append(applied, newValue)
  /\ op' = Op("setState", 0, newValue)
  /\ UNCHANGED <<sut, active, regVars, machVars, seq, uListeners, compVars, globVars, proxyVars, mutated, released,
                 initial, batch>>

UseState_subscribe(l) ==
  /\ sut = "useState"
  /\ uListeners' = SetAdd(uListeners, l)
  /\ released' = Subscribed(l)
  /\ op' = Op("subscribe", l, SubscribeNote(l, uListeners))
  /\ invoked' = <<>>
  /\ UNCHANGED <<sut, active, regVars, machVars, seq, uState, compVars, globVars, proxyVars, mutated, applied, initial,
                 batch>>

UseState_unsubscribe(l) ==
  /\ sut = "useState"
  /\ released[l] # "never"
  /\ uListeners' = SetDelete(uListeners, l)
  /\ released' = Released(l)
  /\ op' = Op("unsubscribe", l, None)
  /\ invoked' = <<>>
  /\ UNCHANGED <<sut, active, regVars, machVars, seq, uState, compVars, globVars, proxyVars, mutated, applied, initial,
                 batch>>

\* ---------------------------------------- GlobalStateManager (singleton)

GlobalVals == Numbers \cup {Undefined, EmptyObject}
GlobalActions == {Lit(v) : v \in Numbers \cup {EmptyObject}} \cup {Inc}

\* initialState || {}
OrEmptyObject(v) ==
  IF v.t = "undefined" \/ (v.t = "number" /\ v.n = 0) THEN EmptyObject ELSE v

\* released when the instance is replaced: the listeners subscribed on the
\* old instance are "dropped" with it.
Dropped ==
  [l \in Listeners |-> IF released[l] = "never" THEN "never" ELSE "dropped"]

\* Mutant: getInstance constructs whenever it is given an initial state.
Global_mustCreate_whenGiven(inst, initialState) ==
  inst = 0 \/ initialState # Undefined

\* !GlobalStateManager.instance
Global_mustCreate(inst, initialState) == inst = 0

\* Mutant: the new instance takes over the listeners of the old one.
Global_newListeners_kept(ls) == ls

\* listeners = new Set() of the instance a constructor call creates
Global_newListeners(ls) == <<>>

\* Mutant: resetInstance clears the slot, the next getInstance constructs.
Global_resetSlot_cleared(inst) == 0

\* GlobalStateManager.instance = new GlobalStateManager(...): the slot holds
\* another instance than before.
Global_resetSlot(inst) == inst + 1

\* gInst numbers the instances in the order of their construction; 0 is
\* the empty slot.
Global_getInstance(initialState) ==
  /\ Drives("global")
  /\ IF Global_mustCreate(gInst, initialState)
     THEN /\ gInst' = gInst + 1
          /\ gState' = OrEmptyObject(initialState)
          /\ gListeners' = Global_newListeners(gListeners)
     ELSE UNCHANGED <<gInst, gState, gListeners>>
  /\ op' = Op("getInstance", 0, Lit(initialState))
  /\ invoked' = <<>>
  /\ UNCHANGED <<sut, active, regVars, machVars, seq, compVars, useVars, proxyVars, mutated, released, applied,
                 initial, batch>>

\* The model follows GlobalStateManager.instance: of the instance a reset
\* drops it keeps only which listeners were subscribed on it.
Global_resetInstance(initialState) ==
  /\ Drives("global")
  /\ gInst < MaxInstances
  /\ gInst' = Global_resetSlot(gInst)
  /\ gState' = OrEmptyObject(initialState)
  /\ gListeners' = Global_newListeners(gListeners)
  /\ released' = Dropped
  /\ op' = Op("resetInstance", 0, Lit(initialState))
  /\ invoked' = <<>>
  /\ UNCHANGED <<sut, active, regVars, machVars, seq, compVars, useVars, proxyVars, mutated, applied, initial, batch>>

Global_newState(action, cur) ==
  IF isFunction(action) THEN CallNum(action, cur) ELSE action.v

\* Mutant: the listeners are handed the value before the call.
Global_notify_old(ls, old, new) == InvokeEach(ls, old, new)

\* Mutant: listeners are notified only when the value changed.
Global_notify_onChange(ls, old, new) ==
  IF old = new THEN <<>> ELSE InvokeEach(ls, new, new)

\* this.listeners.forEach((listener) => listener(this.currentState))
Global_notify(ls, old, new) == InvokeEach(ls, new, new)

\* setState on the instance getInstance() returns.
Global_setState(action) ==
  /\ Drives("global")
  /\ gInst > 0
  /\ NumRoom(action, gState)
  /\ LET new == Global_newState(action, gState)
         calls == Global_notify(gListeners, gState, new)
     IN  /\ gState' = new
         /\ invoked' = UpToRaise(calls)
         /\ op' = IF Raised(calls)
                  THEN Throw("setState", 0, action, ListenerError)
                  ELSE Op("setState", 0, action)
  /\ UNCHANGED <<sut, active, regVars, machVars, seq, gInst, gListeners, compVars, useVars, proxyVars, mutated,
                 released, applied, initial, batch>>

Global_subscribe(l) ==
  /\ Drives("global")
  /\ gInst > 0
  /\ gListeners' = SetAdd(gListeners, l)
  /\ released' = Subscribed(l)
  /\ op' = Op("subscribe", l, SubscribeNote(l, gListeners))
  /\ invoked' = <<>>
  /\ UNCHANGED <<sut, active, regVars, machVars, seq, gInst, gState, compVars, useVars, proxyVars, mutated, applied,
                 initial, batch>>

\* The closure subscribe(l) returned: () => this.listeners.delete(callback).
\* A closure of a dropped instance deletes from that instance's set.
Global_unsubscribe(l) ==
  /\ Drives("global")
  /\ released[l] # "never"
  /\ IF released[l] = "dropped"
     THEN UNCHANGED <<gListeners, released>>
     ELSE /\ gListeners' = SetDelete(gListeners, l)
          /\ released' = Released(l)
  /\ op' = Op("unsubscribe", l, None)
  /\ invoked' = <<>>
  /\ UNCHANGED <<sut, active, regVars, machVars, seq, gInst, gState, compVars, useVars, proxyVars, mutated, applied,
                 initial, batch>>

\* ------------------------------------- ProxyStateManager (change-aware)

\* The state { count: 0 }, and the states { count: n }: the Active runs are
\* fed these.
ResetState == [count |-> Num(0), cb |-> Undefined, user |-> Undefined]
CountVals == {[ResetState EXCEPT !["count"] = c] : c \in Numbers}

\* The values the tests and callers construct a ProxyStateManager with.
CtorVals == ObjVals \cup {Num(0), Undefined, Null, Func}

ProxyMessage == "ProxyStateManager can only manage state of type 'object'."

\* Mutant: null passes the constructor's test.
Proxy_rejects_typeofOnly(initialState) == TypeOf(initialState) # "object"

\* typeof initialState !== "object" || initialState === null
Proxy_rejects(initialState) ==
  \/ TypeOf(initialState) # "object"
  \/ (~IsRecordOfState(initialState) /\ initialState.t = "null")

\* this.state has been assigned: the constructor returned.
Constructed == IsRecordOfState(pState)

\* new ProxyStateManager(initialState).  A run constructs one container; a
\* construction that threw left none, and the run may construct again.
Proxy_constructor(initialState) ==
  /\ Drives("proxy")
  /\ sut = "proxy" \/ initialState = ResetState
  /\ ~Constructed
  /\ IF Proxy_rejects(initialState)
     THEN /\ op' = Throw("new", 0, Lit(initialState), ProxyMessage)
          /\ UNCHANGED <<pState, seq>>
     ELSE /\ op' = Op("new", 0, Lit(initialState))
          /\ pState' = initialState
          /\ seq' = Kept(SeqStart(initialState), SeqOff)
  /\ invoked' = <<>>
  /\ UNCHANGED <<sut, active, regVars, machVars, pListeners, isBatchingUpdates,
                 pendingNotifications, hasStateChanged, compVars, useVars,
                 globVars, released, applied, initial, batch, mutated>>

\* Mutant: the values are compared, not their JSON texts.
Proxy_differs_byValue(state, newState) == state # newState

\* JSON.stringify(this.state) !== JSON.stringify(newState)
Proxy_differs(state, newState) == JsonObject(state) # JsonObject(newState)

\* Mutant: the handler compares the values, not their JSON texts.
Proxy_valueDiffers_byValue(oldValue, value) == oldValue # value

\* The handler's test: JSON.stringify(oldValue) !== JSON.stringify(value)
Proxy_valueDiffers(oldValue, value) == JsonValue(oldValue) # JsonValue(value)

\* Mutant: the iteration stops after the first listener.
Proxy_notifyListeners_first(ls, state) ==
  IF ls = <<>> THEN <<>> ELSE InvokeEach(<<Head(ls)>>, state, state)

\* notifyListeners: this.listeners.forEach((listener) => listener(this.state))
Proxy_notifyListeners(ls, state) == InvokeEach(ls, state, state)

\* this.listeners.forEach((listener) => this.pendingNotifications.add(listener))
\* Mutant: the queue is a list, a listener is queued once per change.
Proxy_addPending_list(pending, ls) == pending \o ls

Proxy_addPending(pending, ls) ==
  pending \o SelectSeq(ls, LAMBDA listener : listener \notin Range(pending))

\* What listener 1 does to the state when it is called with it, in the
\* runs where it calls setState({count: 0}) or assigns getState().count = 0:
\* the state the container then holds, whether the change test of setState
\* (of the set trap) found a change, and whether the trap set
\* hasStateChanged.
Proxy_reentrant(state) ==
  IF active = "write"
  THEN LET differs == Proxy_valueDiffers(state["count"], Num(0))
       IN  [state |-> [state EXCEPT !["count"] = Num(0)], differs |-> differs,
            flag |-> differs]
  ELSE LET differs == Proxy_differs(state, ResetState)
       IN  [state |-> IF differs THEN ResetState ELSE state,
            differs |-> differs, flag |-> FALSE]

\* notifyListeners() outside a batch, with the state this.state holds: the
\* calls made, the state afterwards, whether a listener threw, whether
\* hasStateChanged was set.  A change listener 1 makes runs
\* notifyListeners() again, inside its call; the outer forEach then goes on
\* with the state it left.
Proxy_notifyRun(ls, state) ==
  LET at == ActiveAt(ls)
      all == Proxy_notifyListeners(ls, state)
      e == Proxy_reentrant(state)
  IN  IF at = 0
      THEN [calls |-> all, state |-> state, raised |-> FALSE, flag |-> FALSE]
      ELSE IF active = "raise"
      THEN [calls |-> SubSeq(all, 1, at), state |-> state, raised |-> TRUE,
            flag |-> FALSE]
      ELSE IF e.differs
      THEN [calls |-> SubSeq(all, 1, at)
                      \o Proxy_notifyListeners(ls, e.state)
                      \o Proxy_notifyListeners(SubSeq(ls, at + 1, Len(ls)),
                                               e.state),
            state |-> e.state, raised |-> FALSE, flag |-> e.flag]
      ELSE [calls |-> all, state |-> e.state, raised |-> FALSE,
            flag |-> FALSE]

\* What announcing a change to the state does besides queueing: nothing in
\* a batch, notifyListeners() outside.
Proxy_outcome(state) ==
  IF isBatchingUpdates
  THEN [calls |-> <<>>, state |-> state, raised |-> FALSE, flag |-> FALSE]
  ELSE Proxy_notifyRun(pListeners, state)

\* Mutant: a change notifies at once, batching or not.
Proxy_announce_always(state) ==
  /\ invoked' = InvokeEach(pListeners, state, state)
  /\ UNCHANGED pendingNotifications

\* What a change does: notify now, or queue while batching.
Proxy_announce(state) ==
  IF ~isBatchingUpdates
  THEN /\ invoked' = Proxy_outcome(state).calls
       /\ UNCHANGED pendingNotifications
  ELSE /\ invoked' = <<>>
       /\ pendingNotifications' = Proxy_addPending(pendingNotifications, pListeners)

\* The operation returned, or threw the listener's Error.
Proxy_op(name, a, raised) ==
  IF raised THEN Throw(name, 0, a, ListenerError) ELSE Op(name, 0, a)

\* mutated after a setState, a property write or a nested write that found
\* state and left newState.
Mutated(state, newState) ==
  IF mutated.open
  THEN [mutated EXCEPT !.any = @ \/ JsonObject(state) # JsonObject(newState)]
  ELSE NoMutation

\* Mutant: a function action is not called, the state is kept.
Proxy_newState_keep(action, cur) ==
  IF isFunction(action) THEN cur ELSE action.v

Proxy_newState(action, cur) ==
  IF isFunction(action) THEN CallObj(action, cur) ELSE action.v

Proxy_setState(action) ==
  /\ Drives("proxy")
  /\ sut = "proxy" \/ (action.f = "lit" /\ action.v \in CountVals)
  /\ Constructed
  /\ ObjRoom(action, pState)
  /\ LET newState == Proxy_newState(action, pState)
         run == Proxy_outcome(newState)
     IN  /\ Shape(newState) = Shape(pState)
         /\ IF Proxy_differs(pState, newState)
            THEN /\ pState' = run.state
                 /\ Proxy_announce(newState)
                 /\ hasStateChanged' = (hasStateChanged \/ run.flag)
                 /\ op' = Proxy_op("setState", action, run.raised)
                 /\ batch' = BatchAfterSet(newState)
            ELSE /\ invoked' = <<>>
                 /\ op' = Op("setState", 0, action)
                 /\ batch' = BatchAfterNoChange
                 /\ UNCHANGED <<pState, pendingNotifications, hasStateChanged>>
         /\ mutated' = Mutated(pState, newState)
  /\ seq' = IF isBatchingUpdates THEN SeqOff ELSE SeqAfterSet(action, invoked')
  /\ UNCHANGED <<sut, active, regVars, machVars, pListeners, isBatchingUpdates,
                 compVars, useVars, globVars, released, applied, initial>>

\* The set trap of createProxy, for a write getState()[prop] = value through
\* the proxy that is the current state: the write lands, then the old and the
\* new value of the member are compared.
Proxy_set(prop, value) ==
  /\ Drives("proxy")
  /\ sut = "proxy" \/ prop = "count"
  /\ Constructed
  /\ LET oldValue == pState[prop]
         written == [pState EXCEPT ![prop] = value]
         run == Proxy_outcome(written)
         a == Lit([prop |-> prop, value |-> value])
     IN  /\ written \in ObjVals
         /\ Shape(written) = Shape(pState)
         /\ IF Proxy_valueDiffers(oldValue, value)
            THEN /\ pState' = run.state
                 /\ hasStateChanged' = TRUE
                 /\ Proxy_announce(written)
                 /\ op' = Proxy_op("set", a, run.raised)
            ELSE /\ pState' = written
                 /\ invoked' = <<>>
                 /\ op' = Op("set", 0, a)
                 /\ UNCHANGED <<hasStateChanged, pendingNotifications>>
         /\ mutated' = Mutated(pState, written)
  /\ batch' = BatchAfterOther
  /\ seq' = SeqOff
  /\ UNCHANGED <<sut, active, regVars, machVars, pListeners, isBatchingUpdates, compVars, useVars,
                 globVars, released, applied, initial>>

\* getState().user.age = value.  createProxy wraps the top-level object with
\* a handler that has a set trap only: getState().user is the member object
\* itself, and the write to it runs no handler.
Proxy_nestedSet(value) ==
  /\ Drives("proxy")
  /\ Constructed
  /\ Shape(pState) = "nested"
  /\ pState' = [pState EXCEPT !["user"] = Nested(value)]
  /\ mutated' = Mutated(pState, pState')
  /\ invoked' = <<>>
  /\ batch' = BatchAfterOther
  /\ seq' = SeqOff
  /\ op' = Op("nestedSet", 0, Lit(Num(value)))
  /\ UNCHANGED <<sut, active, regVars, machVars, pListeners, isBatchingUpdates,
                 pendingNotifications, hasStateChanged, compVars, useVars,
                 globVars, released, applied, initial>>

Proxy_subscribe(listener) ==
  /\ Drives("proxy")
  /\ Constructed
  /\ seq' = SeqAfterSubscription
  /\ pListeners' = SetAdd(pListeners, listener)
  /\ released' = Subscribed(listener)
  /\ batch' = BatchAfterOther
  /\ op' = Op("subscribe", listener, SubscribeNote(listener, pListeners))
  /\ invoked' = <<>>
  /\ mutated' = MutatedAfterOther
  /\ UNCHANGED <<sut, active, regVars, machVars, pState, isBatchingUpdates, pendingNotifications,
                 hasStateChanged, compVars, useVars, globVars, applied,
                 initial>>

\* this.listeners.delete(listener)
Proxy_delete(ls, pending, listener) ==
  [listeners |-> SetDelete(ls, listener), pending |-> pending]

\* The closure subscribe(listener) returned: () => this.unsubscribe(listener).
Proxy_unsubscribe(listener) ==
  /\ Drives("proxy")
  /\ seq' = SeqAfterSubscription
  /\ released[listener] # "never"
  /\ LET r == Proxy_delete(pListeners, pendingNotifications, listener)
     IN  /\ pListeners' = r.listeners
         /\ pendingNotifications' = r.pending
  /\ released' = Released(listener)
  /\ batch' = BatchAfterOther
  /\ op' = Op("unsubscribe", listener, None)
  /\ invoked' = <<>>
  /\ mutated' = MutatedAfterOther
  /\ UNCHANGED <<sut, active, regVars, machVars, pState, isBatchingUpdates, hasStateChanged, compVars,
                 useVars, globVars, applied, initial>>

\* Mutant: beginBatchUpdates toggles the mode.
Proxy_begin_toggle(batching) == ~batching

\* this.isBatchingUpdates = true
Proxy_begin(batching) == TRUE

Proxy_beginBatchUpdates ==
  /\ Drives("proxy")
  /\ Constructed
  /\ seq' = SeqOff
  /\ isBatchingUpdates' = Proxy_begin(isBatchingUpdates)
  /\ batch' = IF batch.open
              THEN Mixed
              ELSE Kept([open |-> TRUE, subs |-> pListeners, onlySets |-> TRUE,
                         any |-> FALSE, last |-> pState], NoBatch)
  /\ mutated' = IF mutated.open
                THEN mutated
                ELSE Kept([open |-> TRUE, any |-> FALSE,
                           began |-> JsonObject(pState)], NoMutation)
  /\ op' = Op("beginBatchUpdates", 0, None)
  /\ invoked' = <<>>
  /\ UNCHANGED <<sut, active, regVars, machVars, pState, pListeners, pendingNotifications,
                 hasStateChanged, compVars, useVars, globVars, released,
                 applied, initial>>

\* Mutant: the flush calls nobody when the state has the JSON text it had
\* at beginBatchUpdates.
Proxy_flush_ifChanged(pending, state) ==
  IF JsonObject(state) = mutated.began THEN <<>>
  ELSE InvokeEach(pending, state, state)

\* The flush: every pending listener is called with the state.
Proxy_flush(pending, state) == InvokeEach(pending, state, state)

\* Mutant: a change made by a listener during the flush queues nobody.
Proxy_requeue_none(pending, ls) == pending

\* The queue after a listener changed the state during the flush: the
\* container is batching, the registered listeners are added to the Set the
\* flush is walking.
Proxy_requeue(pending, ls) == Proxy_addPending(pending, ls)

\* this.pendingNotifications.forEach((listener) => listener(this.state)):
\* the calls made, the state and the queue when forEach ends, whether a
\* listener threw, whether hasStateChanged was set.  forEach walks the live
\* Set: a listener added to it during the walk is visited, after those
\* that were in it; each call is handed the state this.state holds then.
\* A change made by a listener outside a batch runs notifyListeners()
\* inside its call.
Proxy_flushRun(pending, ls, state, batching) ==
  LET at == ActiveAt(pending)
      all == Proxy_flush(pending, state)
      e == Proxy_reentrant(state)
      queue == IF e.differs /\ batching THEN Proxy_requeue(pending, ls)
               ELSE pending
      inner == IF e.differs /\ ~batching
               THEN Proxy_notifyListeners(ls, e.state) ELSE <<>>
  IN  IF at = 0
      THEN [calls |-> all, state |-> state, pending |-> pending,
            raised |-> FALSE, flag |-> FALSE]
      ELSE IF active = "raise"
      THEN [calls |-> SubSeq(all, 1, at), state |-> state,
            pending |-> pending, raised |-> TRUE, flag |-> FALSE]
      ELSE [calls |-> SubSeq(all, 1, at) \o inner
                      \o Proxy_flush(SubSeq(queue, at + 1, Len(queue)), e.state),
            state |-> e.state, pending |-> queue, raised |-> FALSE,
            flag |-> e.flag]

\* Mutant: the queue is cleared whether the flush threw or not.
Proxy_pendingAfter_cleared(pending, raised) == <<>>

\* this.pendingNotifications.clear(), reached when forEach returned.
Proxy_pendingAfter(pending, raised) == IF raised THEN pending ELSE <<>>

\* this.isBatchingUpdates = false, after the flush
Proxy_end(batching) == FALSE

Proxy_endBatchUpdates ==
  /\ Drives("proxy")
  /\ Constructed
  /\ seq' = SeqOff
  /\ LET run == Proxy_flushRun(pendingNotifications, pListeners, pState,
                               isBatchingUpdates)
     IN  IF Len(pendingNotifications) > 0
         THEN /\ invoked' = run.calls
              /\ pState' = run.state
              /\ hasStateChanged' = (hasStateChanged \/ run.flag)
              /\ pendingNotifications' = Proxy_pendingAfter(run.pending, run.raised)
              /\ op' = Proxy_op("endBatchUpdates", None, run.raised)
              /\ isBatchingUpdates' = IF run.raised THEN isBatchingUpdates
                                      ELSE Proxy_end(isBatchingUpdates)
              /\ mutated' = IF mutated.open
                            THEN [mutated EXCEPT !.open = FALSE]
                            ELSE NoMutation
         ELSE /\ invoked' = <<>>
              /\ op' = Op("endBatchUpdates", 0, None)
              /\ isBatchingUpdates' = Proxy_end(isBatchingUpdates)
              /\ mutated' = IF mutated.open
                            THEN [mutated EXCEPT !.open = FALSE]
                            ELSE NoMutation
              /\ UNCHANGED <<pState, pendingNotifications, hasStateChanged>>
  /\ batch' = IF batch.open THEN [batch EXCEPT !.open = FALSE] ELSE NoBatch
  /\ UNCHANGED <<sut, active, regVars, machVars, pListeners, compVars, useVars,
                 globVars, released, applied, initial>>

\* The test lets listener 1 throw, or stops it throwing.
Listener_toggle ==
  /\ active \in {"raise", "calm"}
  /\ active' = IF active = "raise" THEN "calm" ELSE "raise"
  /\ op' = Op("toggle", 1, None)
  /\ invoked' = <<>>
  /\ UNCHANGED <<sut, regVars, machVars, proxyVars, compVars, useVars,
                 globVars, released, applied, initial, batch, seq, mutated>>

\* ------------------------------------------------------ StateMachine

\* The machineState objects a caller holds, told apart by identity.  The
\* last one has the name of the first; onEnter and onExit are optional.
StateObjs == 1..MaxStates
StateName(o) == IF o = MaxStates THEN "State1" ELSE "State" \o ToString(o)
HasOnEnter(o) == o % 3 # 2
HasOnExit(o) == o % 3 # 0

\* The arrays given to the constructor.
Arrays == UNION {[1..n -> StateObjs] : n \in 0..MaxArray}

\* Mutant: the constructor throws nothing.
MachineMessage_none == ""

\* Mutant: the message does not name the state.
InvalidMessage_noName(newState) == "Invalid state"

MachineMessage == "StateMachine must be initialized with at least one machine state."
InvalidMessage(newState) == "Invalid state: " \o StateName(newState)

\* A callback call, recorded with the state getCurrentState() returned
\* while it ran.
OnEnter == [t |-> "onEnter", n |-> 0]
OnExit == [t |-> "onExit", n |-> 0]
CallOnEnter(o, current) ==
  IF HasOnEnter(o)
  THEN <<[l |-> o, arg |-> OnEnter, seen |-> Num(current)]>> ELSE <<>>
CallOnExit(o, current) ==
  IF HasOnExit(o)
  THEN <<[l |-> o, arg |-> OnExit, seen |-> Num(current)]>> ELSE <<>>

\* Mutant: the target is looked up by its name.
Machine_includes_byName(states, newState) ==
  \E i \in 1..Len(states) : StateName(states[i]) = StateName(newState)

\* Mutant: the last entry becomes the current state.
Machine_initial_last(states) == states[Len(states)]

\* this.currentState = states[0]
Machine_initial(states) == states[1]

\* Mutant: onEnter of the target runs first, before the assignment.
Machine_callbacks_enterFirst(current, newState) ==
  CallOnEnter(newState, current) \o CallOnExit(current, current)

\* Mutant: a transition to the current state calls nothing.
Machine_callbacks_skipSame(current, newState) ==
  IF current = newState THEN <<>>
  ELSE CallOnExit(current, current) \o CallOnEnter(newState, newState)

\* this.currentState.onExit?.(); this.currentState = newState;
\* this.currentState.onEnter?.()
Machine_callbacks(current, newState) ==
  CallOnExit(current, current) \o CallOnEnter(newState, newState)

\* this.states.includes(newState): identity of the objects.
Machine_includes(states, newState) == newState \in Range(states)

\* new StateMachine(states).  mCurrent = 0: no machine was constructed yet.
\* this.states is the caller's array; mSupplied is what it held when the
\* constructor ran.
Machine_constructor(states) ==
  /\ sut = "stateMachine"
  /\ mCurrent = 0
  /\ IF Len(states) = 0
     THEN /\ op' = Throw("new", 0, Lit(states), MachineMessage)
          /\ invoked' = <<>>
          /\ UNCHANGED machVars
     ELSE /\ mStates' = states
          /\ mSupplied' = states
          /\ mCurrent' = Machine_initial(states)
          /\ invoked' = CallOnEnter(mCurrent', mCurrent')
          /\ op' = Op("new", 0, Lit(states))
  /\ UNCHANGED <<sut, active, regVars, seq, compVars, useVars, globVars, proxyVars, mutated, released,
                 applied, initial, batch>>

Machine_transitionTo(newState) ==
  /\ sut = "stateMachine"
  /\ mCurrent # 0
  /\ IF Machine_includes(mStates, newState)
     THEN /\ invoked' = Machine_callbacks(mCurrent, newState)
          /\ mCurrent' = newState
          /\ op' = Op("transitionTo", newState, None)
     ELSE /\ op' = Throw("transitionTo", newState, None, InvalidMessage(newState))
          /\ invoked' = <<>>
          /\ UNCHANGED mCurrent
  /\ UNCHANGED <<sut, active, regVars, seq, mStates, mSupplied, compVars, useVars, globVars,
                 proxyVars, mutated, released, applied, initial, batch>>

\* states.push(o) by the caller, on the array it gave the constructor:
\* this.states = states keeps that array, not a copy of it.
Machine_callerPush(o) ==
  /\ sut = "stateMachine"
  /\ mCurrent # 0
  /\ Len(mStates) <= MaxArray
  /\ mStates' = Append(mStates, o)
  /\ op' = Op("push", o, None)
  /\ invoked' = <<>>
  /\ UNCHANGED <<sut, active, regVars, seq, mCurrent, mSupplied, compVars, useVars, globVars,
                 proxyVars, mutated, released, applied, initial, batch>>

\* ------------------------------------------------ ATSManager (registry)

\* A run drives two ATSManager instances.  rRef[m][kind] is the entry of
\* m's stateManagers map: 0 when the key is absent; for "global" the number
\* gInst of the GlobalStateManager instance it holds; otherwise the number
\* of the manager constructed for that entry.  rState[m][kind] is the state
\* of that manager (for a StateMachine its current state); the state of the
\* GlobalStateManager is gState.  A run varies the arguments and calls
\* setState (transitionTo) for one kind, rKind; the other kinds are added
\* with one argument each.  Listeners and callbacks are left out here.
P(n) == [count |-> Num(n), cb |-> Undefined, user |-> Undefined]

\* The global arguments are values that initialState || {} keeps.
AddArgs(kind) ==
  CASE kind = "component" -> {Num(0), Num(1)}
    [] kind = "global" -> {Num(1), EmptyObject}
    [] kind = "proxy" -> {P(0), P(1), Num(0)}
    [] kind = "stateMachine" -> {<<1, 2>>, <<2, 1>>, <<>>}
DefaultArg(kind) ==
  CASE kind = "component" -> Num(0)
    [] kind = "global" -> EmptyObject
    [] kind = "proxy" -> P(0)
    [] kind = "stateMachine" -> <<1, 2>>
SetArgs(kind) ==
  CASE kind = "component" -> {Num(0), Num(1)}
    [] kind = "global" -> {Num(0), Num(1)}
    [] kind = "proxy" -> {P(0), P(1)}
    [] kind = "stateMachine" -> {Num(1), Num(2)}
    [] OTHER -> {}

KindName(kind) ==
  CASE kind = "component" -> "ComponentStateManager"
    [] kind = "global" -> "GlobalStateManager"
    [] kind = "proxy" -> "ProxyStateManager"
    [] kind = "stateMachine" -> "StateMachine"
AlreadyMessage(kind) == KindName(kind) \o " has already been initialized."
NotExistMessage(kind) == "State manager of type '" \o kind \o "' does not exist."

\* The tests initializeStateMachine and initializeProxyState make after the
\* has test.
Registry_invalid(kind, arg) ==
  \/ (kind = "stateMachine" /\ Len(arg) = 0)
  \/ (kind = "proxy" /\ Proxy_rejects(arg))
Registry_invalidMessage(kind) ==
  IF kind = "proxy" THEN ProxyMessage
  ELSE "StateMachine must be initialized with at least one state."

\* Mutant: an add never finds the key.
Registry_has_never(map, kind) == FALSE

\* this.stateManagers.has(kind), in initialize*
Registry_has(map, kind) == map[kind] # 0

\* Mutant: getStateManager never finds the key missing.
Registry_missing_never(map, kind) == FALSE

\* !this.stateManagers.has(managerType), in getStateManager
Registry_missing(map, kind) == map[kind] = 0

\* The state of the manager new X(arg) constructs.
Registry_initialState(kind, arg) ==
  IF kind = "stateMachine" THEN Num(Machine_initial(arg)) ELSE arg

\* The state after setState(value) (transitionTo for a StateMachine, to a
\* state of its array) on a manager in state cur.
Registry_newState(kind, cur, value) ==
  IF kind = "proxy" /\ ~Proxy_differs(cur, value) THEN cur ELSE value

\* The state getState() (getCurrentState()) returns on the manager that
\* m.getStateManager(kind) returns.
Registry_state(m, kind) == IF kind = "global" THEN gState ELSE rState[m][kind]

\* m.addStateMachine / addProxyState / addGlobalState / addComponentState
Registry_add(m, kind, arg) ==
  /\ sut = "registry"
  /\ IF Registry_has(rRef[m], kind)
     THEN /\ op' = Throw("add", m, [f |-> kind, v |-> arg], AlreadyMessage(kind))
          /\ UNCHANGED <<rRef, rState, gInst, gState>>
     ELSE IF Registry_invalid(kind, arg)
     THEN /\ op' = Throw("add", m, [f |-> kind, v |-> arg],
                        Registry_invalidMessage(kind))
          /\ UNCHANGED <<rRef, rState, gInst, gState>>
     ELSE /\ op' = Op("add", m, [f |-> kind, v |-> arg])
          /\ IF kind = "global"
             THEN /\ IF Global_mustCreate(gInst, arg)
                     THEN /\ gInst' = gInst + 1
                          /\ gState' = OrEmptyObject(arg)
                     ELSE UNCHANGED <<gInst, gState>>
                  /\ rRef' = [rRef EXCEPT ![m][kind] = gInst']
                  /\ UNCHANGED rState
             ELSE /\ rRef' = [rRef EXCEPT ![m][kind] = @ + 1]
                  /\ rState' = [rState EXCEPT ![m][kind] =
                                  Registry_initialState(kind, arg)]
                  /\ UNCHANGED <<gInst, gState>>
  /\ invoked' = <<>>
  /\ UNCHANGED <<sut, active, rKind, gListeners, compVars, useVars, proxyVars, mutated,
                 machVars, released, applied, initial, batch, seq>>

\* m.getStateManager(kind); the op records the manager returned.
Registry_getStateManager(m, kind) ==
  /\ sut = "registry"
  /\ op' = IF Registry_missing(rRef[m], kind)
           THEN Throw("get", m, [f |-> kind, v |-> Undefined],
                      NotExistMessage(kind))
           ELSE Op("get", m, [f |-> kind, v |-> Num(rRef[m][kind])])
  /\ invoked' = <<>>
  /\ UNCHANGED <<sut, active, regVars, globVars, compVars, useVars, proxyVars, mutated,
                 machVars, released, applied, initial, batch, seq>>

\* m.getStateManager(rKind).setState(value), or .transitionTo(value).
Registry_setState(m, value) ==
  /\ sut = "registry"
  /\ rRef[m][rKind] # 0
  /\ IF rKind = "global"
     THEN /\ gState' = value
          /\ UNCHANGED rState
     ELSE /\ rState' = [rState EXCEPT ![m][rKind] =
                          Registry_newState(rKind, @, value)]
          /\ UNCHANGED gState
  /\ op' = Op("setState", m, [f |-> rKind, v |-> value])
  /\ invoked' = <<>>
  /\ UNCHANGED <<sut, active, rKind, rRef, gInst, gListeners, compVars, useVars,
                 proxyVars, mutated, machVars, released, applied, initial, batch, seq>>

\* ------------------------------------------------------ specification

Next ==
  \/ \E a \in NumActions : Component_setState(a)
  \/ \E l \in Listeners : Component_subscribe(l)
  \/ \E l \in Listeners : Component_unsubscribe(l)
  \/ \E a \in NumActions : UseState_setState(a)
  \/ \E l \in Listeners : UseState_subscribe(l)
  \/ \E l \in Listeners : UseState_unsubscribe(l)
  \/ \E v \in GlobalVals : Global_getInstance(v)
  \/ \E v \in GlobalVals : Global_resetInstance(v)
  \/ \E a \in GlobalActions : Global_setState(a)
  \/ \E l \in Listeners : Global_subscribe(l)
  \/ \E l \in Listeners : Global_unsubscribe(l)
  \/ \E v \in CtorVals : Proxy_constructor(v)
  \/ \E a \in ObjActions : Proxy_setState(a)
  \/ \E n \in 0..MaxCount : Proxy_nestedSet(n)
  \/ \E i \in 1..Len(Keys) : \E v \in PropVals(Keys[i]) : Proxy_set(Keys[i], v)
  \/ \E l \in Listeners : Proxy_subscribe(l)
  \/ \E l \in Listeners : Proxy_unsubscribe(l)
  \/ Proxy_beginBatchUpdates
  \/ Proxy_endBatchUpdates
  \/ Listener_toggle
  \/ \E states \in Arrays : Machine_constructor(states)
  \/ \E o \in StateObjs : Machine_transitionTo(o)
  \/ \E o \in StateObjs : Machine_callerPush(o)
  \/ \E m \in Managers : \E kind \in Kinds :
       \E arg \in (IF kind = rKind THEN AddArgs(kind) ELSE {DefaultArg(kind)}) :
         Registry_add(m, kind, arg)
  \/ \E m \in Managers : \E kind \in Kinds : Registry_getStateManager(m, kind)
  \/ \E m \in Managers : \E value \in SetArgs(rKind) : Registry_setState(m, value)

Spec == Init /\ [][Next]_vars

\* ------------------------------------------------------------ claims

\* C1: on the ProxyStateManager, between beginBatchUpdates() and the next
\* endBatchUpdates() no operation (setState, a property write, subscribe,
\* unsubscribe, a repeated beginBatchUpdates) invokes a listener: whenever
\* the container is batching, the last operation invoked nobody.
C1_NoNotificationWhileBatching ==
  (sut = "proxy" /\ isBatchingUpdates) => invoked = <<>>

\* A change was made and queued inside an open batch.
C1_Witness ==
  /\ sut = "proxy"
  /\ isBatchingUpdates
  /\ op.name \in {"setState", "set"}
  /\ hasStateChanged
  /\ Len(pendingNotifications) >= 2
  /\ invoked = <<>>

\* C2: a batch beginBatchUpdates(); setState calls of which at least one
\* changed the state; endBatchUpdates() invokes each listener subscribed
\* before the batch exactly once, at endBatchUpdates, with the state the
\* last state-changing setState stored, and leaves the pending queue empty
\* and batching off.
C2_BatchFlushesOnce ==
  (sut = "proxy" /\ op.name = "endBatchUpdates" /\ batch.onlySets /\ batch.any)
    => /\ Len(invoked) = Len(batch.subs)
       /\ \A l \in Range(batch.subs) : TimesInvoked(invoked, l) = 1
       /\ \A i \in 1..Len(invoked) :
            invoked[i].arg = batch.last /\ invoked[i].seen = batch.last
       /\ pState = batch.last
       /\ pendingNotifications = <<>>
       /\ ~isBatchingUpdates

\* Two listeners were flushed by the end of a batch of setState calls.
C2_Witness ==
  /\ sut = "proxy"
  /\ op.name = "endBatchUpdates"
  /\ batch.onlySets
  /\ batch.any
  /\ Len(batch.subs) >= 2
  /\ Len(invoked) >= 2

\* C3: a setState whose computed value has the JSON text of the current
\* state invokes no listener and queues none.
C3_EqualSetIsSilent ==
  [][(/\ sut = "proxy"
      /\ op'.name = "setState"
      /\ JsonObject(Proxy_newState(op'.a, pState)) = JsonObject(pState))
     => (invoked' = <<>> /\ pendingNotifications' = pendingNotifications)]_vars

\* A setState of a value that differs from the state (in its member cb) but
\* has the same JSON text, with listeners subscribed: nobody was invoked.
C3_Witness ==
  /\ sut = "proxy"
  /\ op.name = "setState"
  /\ ~isFunction(op.a)
  /\ op.a.v # pState
  /\ JsonObject(op.a.v) = JsonObject(pState)
  /\ Len(pListeners) >= 2
  /\ invoked = <<>>

\* C4: outside a batch, a setState whose computed value has another JSON
\* text than the current state invokes every subscribed listener exactly
\* once, passing the new state.
C4_ChangedSetNotifiesAll ==
  [][(/\ sut = "proxy"
      /\ op'.name = "setState"
      /\ ~isBatchingUpdates
      /\ JsonObject(Proxy_newState(op'.a, pState)) # JsonObject(pState))
     => (/\ pState' = Proxy_newState(op'.a, pState)
         /\ \A l \in Range(pListeners) : TimesInvoked(invoked', l) = 1
         /\ \A i \in 1..Len(invoked') : invoked'[i].arg = pState')]_vars

\* Two listeners were called with the state a setState just stored.
C4_Witness ==
  /\ sut = "proxy"
  /\ op.name = "setState"
  /\ ~isBatchingUpdates
  /\ Len(invoked) >= 2
  /\ invoked[1].arg = pState
  /\ isFunction(op.a)

\* C5 (as claimed): a listener whose unsubscribe closure has been called, and
\* which was not subscribed again, is invoked by no later operation.
C5_UnsubscribedNeverNotified ==
  sut = "proxy" =>
    \A l \in Listeners :
      released[l] \in {"cancelled", "unsubscribed"} => l \notin InvokedSet(invoked)

\* C6: on the plain, singleton and change-aware containers, a listener whose
\* subscribe was immediately followed by its unsubscribe closure is invoked
\* by no later state mutation (setState, or a property write on the proxy).
C6_CancelledNeverNotified ==
  \A l \in Listeners :
    (released[l] = "cancelled" /\ op.name \in {"setState", "set"})
      => l \notin InvokedSet(invoked)

\* A mutation notified the other listener while one was cancelled.
C6_Witness ==
  /\ sut = "global"
  /\ op.name = "setState"
  /\ \E l \in Listeners : released[l] = "cancelled"
  /\ invoked # <<>>

\* The fold of a sequence of actions over a value: a literal replaces the
\* value, a function is applied to it.
RECURSIVE Fold(_, _)
Fold(actions, value) ==
  IF actions = <<>> THEN value
  ELSE LET a == Head(actions)
       IN  Fold(Tail(actions), IF a.f = "inc" THEN Num(value.n + 1) ELSE a.v)

\* C7: after any sequence of setState calls on a plain container, getState()
\* is the fold of the sequence's actions over the initial value.
C7_GetIsFold ==
  /\ sut = "component" => cState = Fold(applied, initial)
  /\ sut = "useState" => uState = Fold(applied, initial)

\* MaxOps calls, the last one a function of the previous value.
C7_Witness ==
  /\ sut = "component"
  /\ Len(applied) = MaxOps
  /\ isFunction(applied[MaxOps])
  /\ ~isFunction(applied[1])
  /\ cState # initial

\* The listeners and the state of the plain container under test.
PlainListeners == IF sut = "component" THEN cListeners ELSE uListeners
PlainState == IF sut = "component" THEN cState ELSE uState

CurrentListeners ==
  CASE sut = "component" -> cListeners
    [] sut = "useState" -> uListeners
    [] sut = "global" -> gListeners
    [] sut = "proxy" -> pListeners
    [] OTHER -> <<>>

\* The proxy operation recorded in o, taken in the current state, changes
\* what the container compares.
ProxyChange(o) ==
  \/ /\ o.name = "setState"
     /\ JsonObject(Proxy_newState(o.a, pState)) # JsonObject(pState)
  \/ /\ o.name = "set"
     /\ JsonValue(pState[o.a.v.prop]) # JsonValue(o.a.v.value)

\* The operation recorded in o, taken in the current state, is a setState
\* or property write that notifies.
Notifies(o) ==
  IF sut = "proxy"
  THEN o.name \in {"setState", "set"} /\ ~isBatchingUpdates /\ ProxyChange(o)
  ELSE o.name = "setState"

\* C9: when a setState or property write that triggers a notification
\* returns, every listener registered before the call has been invoked.
C9_AllRegisteredInvoked ==
  [][Notifies(op') => Range(CurrentListeners) \subseteq InvokedSet(invoked')]_vars

\* A property write notified two listeners.
C9_Witness ==
  /\ sut = "proxy"
  /\ op.name = "set"
  /\ Len(pListeners) >= 2
  /\ Range(pListeners) \subseteq InvokedSet(invoked)

\* C10: beginBatchUpdates() while batching changes nothing; every
\* endBatchUpdates() leaves batching mode; the state-changing mutation that
\* follows an endBatchUpdates() notifies at once.
C10_FlatBatching ==
  [][sut = "proxy" =>
       /\ (op'.name = "beginBatchUpdates" /\ isBatchingUpdates)
            => UNCHANGED proxyVars
       /\ op'.name = "endBatchUpdates" => ~isBatchingUpdates'
       /\ (op.name = "endBatchUpdates" /\ op'.name \in {"setState", "set"}
             /\ ProxyChange(op'))
            => /\ Range(pListeners) \subseteq InvokedSet(invoked')
               /\ pendingNotifications' = <<>>]_vars

\* beginBatchUpdates() was called in an open batch with listeners queued.
C10_Witness ==
  /\ sut = "proxy"
  /\ op.name = "beginBatchUpdates"
  /\ batch = Mixed
  /\ isBatchingUpdates
  /\ pendingNotifications # <<>>

\* C11: a write getState()[prop] = value stores value in that member and
\* leaves the other members alone; outside a batch it invokes every
\* registered listener exactly once, with the whole state as it is after
\* the write, when the JSON texts of the old and the new member value
\* differ, and invokes nobody when they are equal.
C11_PropertyWrite ==
  [][(sut = "proxy" /\ op'.name = "set") =>
       LET prop == op'.a.v.prop
           value == op'.a.v.value
       IN  /\ pState'[prop] = value
           /\ \A k \in Range(Keys) \ {prop} : pState'[k] = pState[k]
           /\ ~isBatchingUpdates =>
                IF JsonValue(pState[prop]) # JsonValue(value)
                THEN /\ Len(invoked') = Len(pListeners)
                     /\ \A l \in Range(pListeners) : TimesInvoked(invoked', l) = 1
                     /\ \A i \in 1..Len(invoked') : invoked'[i].arg = pState'
                ELSE invoked' = <<>>]_vars

\* Outside a batch a write to count was announced to two listeners, each
\* handed the state that holds the written value.
C11_Witness ==
  /\ sut = "proxy"
  /\ op.name = "set"
  /\ op.a.v.prop = "count"
  /\ ~isBatchingUpdates
  /\ Len(pListeners) >= 2
  /\ Len(invoked) = Len(pListeners)
  /\ invoked[1].arg = pState
  /\ pState["count"] = op.a.v.value

\* C12: a write through a nested reference, getState().user.age = value,
\* that changes the JSON text of the state is announced like a top-level
\* write: outside a batch every registered listener is invoked exactly once
\* with the state, inside a batch every registered listener is queued.
C12_NestedWriteNotifies ==
  [][(sut = "proxy" /\ op'.name = "nestedSet"
        /\ JsonObject(pState') # JsonObject(pState)) =>
       IF isBatchingUpdates
       THEN Range(pListeners) \subseteq Range(pendingNotifications')
       ELSE /\ Len(invoked') = Len(pListeners)
            /\ \A l \in Range(pListeners) : TimesInvoked(invoked', l) = 1
            /\ \A i \in 1..Len(invoked') : invoked'[i].arg = pState']_vars

\* C13 as stated: after every sequence of setState calls (values or
\* functions) made outside a batch, getState() has the JSON text of the fold
\* of the actions over the constructor's value, and every listener
\* subscribed before the sequence was invoked once for each call that
\* changed the fold's JSON text.
C13_SetSequenceIsFold ==
  (sut = "proxy" /\ seq.on /\ seq.started) =>
    /\ JsonObject(pState) = JsonObject(seq.fold)
    /\ \A l \in Range(pListeners) : seq.hits[l] = seq.changes

\* C13 amended: the same, for the sequences in which no function action
\* reads a member of the previous state that JSON.stringify leaves out.
C13_JsonOnlySequenceIsFold ==
  (sut = "proxy" /\ seq.on /\ seq.started /\ seq.jsonOnly) =>
    /\ JsonObject(pState) = JsonObject(seq.fold)
    /\ \A l \in Range(pListeners) : seq.hits[l] = seq.changes

\* Two calls, one of which changed the JSON text and was announced to two
\* listeners, the other stored nothing: the state and the fold differ in a
\* member without JSON text.
C13_Witness ==
  /\ sut = "proxy"
  /\ seq.on
  /\ seq.jsonOnly
  /\ seq.calls >= 2
  /\ seq.changes = 1
  /\ Len(pListeners) >= 2
  /\ \A l \in Range(pListeners) : seq.hits[l] = 1
  /\ pState # seq.fold

\* C14: new ProxyStateManager(v) with v not an object, or null, throws
\* "ProxyStateManager can only manage state of type 'object'." and leaves no
\* container; with a non-null object it returns and getState() is v.
C14_ConstructorChecksObject ==
  (sut = "proxy" /\ op.name = "new") =>
    IF op.a.v \in {Num(0), Undefined, Func, Null}
    THEN /\ op.err = "ProxyStateManager can only manage state of type 'object'."
         /\ ~Constructed
    ELSE /\ op.err = ""
         /\ Constructed
         /\ pState = op.a.v

\* The constructor was called with null and threw.
C14_Witness ==
  /\ sut = "proxy"
  /\ op.name = "new"
  /\ op.a.v = Null
  /\ op.err # ""
  /\ ~Constructed

\* C15: a getInstance call that finds an instance returns that instance and
\* changes neither its value nor its listeners, whatever initial state it
\* is given; only resetInstance puts another instance in the slot.
C15_GetInstanceIsStable ==
  [][sut = "global" =>
       /\ (op'.name = "getInstance" /\ gInst # 0) => UNCHANGED globVars
       /\ (op'.name # "resetInstance" /\ gInst # 0) => gInst' = gInst]_vars

\* getInstance(1) returned the first instance, whose value is not 1.
C15_Witness ==
  /\ sut = "global"
  /\ op.name = "getInstance"
  /\ op.a.v = Num(1)
  /\ gInst = 1
  /\ gState = EmptyObject

\* C16: the instance that the first getInstance(v) or resetInstance(v)
\* constructs holds v, for every supplied v, and an empty object only when
\* no value is supplied.
C16_InstanceHoldsSupplied ==
  [][(sut = "global"
        /\ (op'.name = "resetInstance" \/ (op'.name = "getInstance" /\ gInst = 0))) =>
       gState' = (IF op'.a.v = Undefined THEN EmptyObject ELSE op'.a.v)]_vars

\* C17: resetInstance leaves an instance without listeners, and a setState
\* on the instance in the slot invokes no listener that was subscribed on
\* a replaced instance and not again since.
C17_ResetDropsListeners ==
  sut = "global" =>
    /\ op.name = "resetInstance" => gListeners = <<>>
    /\ \A l \in Listeners :
         released[l] = "dropped" =>
           /\ l \notin Range(gListeners)
           /\ op.name = "setState" => l \notin InvokedSet(invoked)

\* After a reset a setState invoked the listener subscribed since, not the
\* one subscribed before.
C17_Witness ==
  /\ sut = "global"
  /\ op.name = "setState"
  /\ gInst >= 2
  /\ Len(invoked) = 1
  /\ \E l \in Listeners : released[l] = "dropped"

\* C18 as stated: the getInstance(initial) call that follows a
\* resetInstance determines the value of the instance (for the values
\* initial that initialState || {} keeps).
C18_ResetRearmsFirstAccess ==
  [][(sut = "global" /\ op.name = "resetInstance" /\ op'.name = "getInstance"
        /\ op'.a.v \notin {Undefined, Num(0)}) =>
       gState' = op'.a.v]_vars

\* C18 amended: resetInstance itself constructs the instance, with its
\* argument (an empty object for a falsy one), and the getInstance(initial)
\* call that follows returns that instance and leaves its value as the
\* reset set it.
C18_ResetSeedsInstance ==
  [][sut = "global" =>
       /\ op'.name = "resetInstance" =>
            /\ gInst' \notin {0, gInst}
            /\ gState' = (IF op'.a.v \in {Undefined, Num(0)}
                          THEN EmptyObject ELSE op'.a.v)
       /\ (op.name = "resetInstance" /\ op'.name = "getInstance") =>
            UNCHANGED globVars]_vars

\* getInstance(1) returned the second instance, whose value is not 1.
C18_Witness ==
  /\ sut = "global"
  /\ op.name = "getInstance"
  /\ op.a.v = Num(1)
  /\ gInst >= 2
  /\ gState = Num(0)

\* C19: every setState on the instance stores the value given, or the
\* result of the function given, and invokes each registered listener
\* exactly once with the value getState() returns after the call.
C19_GlobalSetAlwaysNotifies ==
  [][(sut = "global" /\ op'.name = "setState") =>
       /\ gState' = (IF op'.a.f = "lit" THEN op'.a.v ELSE Num(gState.n + 1))
       /\ Len(invoked') = Len(gListeners)
       /\ \A l \in Range(gListeners) : TimesInvoked(invoked', l) = 1
       /\ \A i \in 1..Len(invoked') : invoked'[i].arg = gState']_vars

\* A setState of 1 called two listeners with 1.
C19_Witness ==
  /\ sut = "global"
  /\ op.name = "setState"
  /\ gState = Num(1)
  /\ Len(gListeners) >= 2
  /\ Len(invoked) = Len(gListeners)
  /\ invoked[2].arg = Num(1)

\* C20: after any sequence of transitionTo calls, successful or failing,
\* getCurrentState() is one of the states the array held when the
\* constructor ran.
C20_CurrentIsSupplied ==
  (sut = "stateMachine" /\ mCurrent # 0) => mCurrent \in Range(mSupplied)

\* C21: a successful transitionTo(target) calls the onExit of the state
\* that was current, if it has one, while that state is still current, then
\* makes target current, then calls target's onEnter, if it has one, with
\* target current; it calls nothing else.
C21_ExitThenEnter ==
  [][(sut = "stateMachine" /\ op'.name = "transitionTo" /\ op'.err = "") =>
       /\ mCurrent' = op'.l
       /\ invoked' =
            (IF HasOnExit(mCurrent)
             THEN <<[l |-> mCurrent, arg |-> OnExit, seen |-> Num(mCurrent)]>>
             ELSE <<>>)
            \o (IF HasOnEnter(op'.l)
                THEN <<[l |-> op'.l, arg |-> OnEnter, seen |-> Num(op'.l)]>>
                ELSE <<>>)]_vars

\* A transition ran the onExit of one state and then the onEnter of another.
C21_Witness ==
  /\ sut = "stateMachine"
  /\ op.name = "transitionTo"
  /\ op.err = ""
  /\ Len(invoked) = 2
  /\ invoked[1].arg = OnExit
  /\ invoked[2].arg = OnEnter
  /\ invoked[1].l # invoked[2].l
  /\ mCurrent = invoked[2].l

\* C22: transitionTo(target) with a target that is not in this.states
\* throws "Invalid state: <name of target>", leaves the current state as it
\* was and calls no callback.
C22_InvalidTargetRejected ==
  [][(sut = "stateMachine" /\ op'.name = "transitionTo"
        /\ op'.l \notin Range(mStates)) =>
       /\ op'.err = "Invalid state: " \o StateName(op'.l)
       /\ mCurrent' = mCurrent
       /\ invoked' = <<>>]_vars

\* A transitionTo of a state outside the array threw, the machine being in
\* a state with an onExit callback.
C22_Witness ==
  /\ sut = "stateMachine"
  /\ op.name = "transitionTo"
  /\ op.l \notin Range(mStates)
  /\ op.err = "Invalid state: State2"
  /\ HasOnExit(mCurrent)
  /\ invoked = <<>>

\* C23: a state that was not in the array when the constructor ran is
\* rejected by every later transitionTo, also after the caller has added it
\* to that array.
C23_TargetsFixedAtConstruction ==
  [][(sut = "stateMachine" /\ op'.name = "transitionTo"
        /\ op'.l \notin Range(mSupplied)) =>
       /\ op'.err # ""
       /\ mCurrent' = mCurrent]_vars

\* C24: new StateMachine(states) with a non-empty array makes states[0] the
\* current state and calls its onEnter once, if it has one, and no other
\* callback.
C24_ConstructorEntersFirst ==
  (sut = "stateMachine" /\ op.name = "new" /\ op.a.v # <<>>) =>
    /\ op.err = ""
    /\ mCurrent = op.a.v[1]
    /\ invoked = (IF HasOnEnter(op.a.v[1])
                  THEN <<[l |-> op.a.v[1], arg |-> OnEnter, seen |-> Num(op.a.v[1])]>>
                  ELSE <<>>)

\* A machine was constructed from two different states, the first of which
\* has an onEnter callback.
C24_Witness ==
  /\ sut = "stateMachine"
  /\ op.name = "new"
  /\ Len(op.a.v) = 2
  /\ op.a.v[1] # op.a.v[2]
  /\ mCurrent = op.a.v[1]
  /\ Len(invoked) = 1

\* C25: new StateMachine([]) throws, constructs no machine and calls no
\* callback.
C25_EmptyArrayRejected ==
  (sut = "stateMachine" /\ op.name = "new" /\ op.a.v = <<>>) =>
    /\ op.err # ""
    /\ mCurrent = 0
    /\ invoked = <<>>

\* The constructor was given the empty array.
C25_Witness ==
  /\ sut = "stateMachine"
  /\ op.name = "new"
  /\ op.a.v = <<>>
  /\ op.err = "StateMachine must be initialized with at least one machine state."

\* C26: a target that is not in this.states but has the name of a state in
\* it is rejected, and the current state stays.
C26_IdentityNotName ==
  [][(sut = "stateMachine" /\ op'.name = "transitionTo"
        /\ op'.l \notin Range(mStates)
        /\ \E i \in 1..Len(mStates) : StateName(mStates[i]) = StateName(op'.l)) =>
       /\ op'.err # ""
       /\ mCurrent' = mCurrent]_vars

\* The machine holds the first state; the other object named "State1" was
\* rejected.
C26_Witness ==
  /\ sut = "stateMachine"
  /\ op.name = "transitionTo"
  /\ op.l = MaxStates
  /\ op.l \notin Range(mStates)
  /\ 1 \in Range(mStates)
  /\ op.err = "Invalid state: State1"

\* C27: subscribing a callback that is registered already changes nothing;
\* no operation invokes a listener more than once; after one call of the
\* closure a subscribe returned the callback is not registered.
C27_SubscribeIsIdempotent ==
  [][(sut \in {"component", "useState", "global", "proxy"}) =>
       /\ (op'.name = "subscribe" /\ op'.l \in Range(CurrentListeners))
            => CurrentListeners' = CurrentListeners
       /\ \A l \in Listeners : TimesInvoked(invoked', l) <= 1
       /\ op'.name = "unsubscribe"
            => op'.l \notin Range(CurrentListeners')]_vars

\* A callback was subscribed a second time, after another one, and is
\* registered once.
C27_Witness ==
  /\ sut \in {"component", "global", "proxy"}
  /\ op.name = "subscribe"
  /\ op.a = Again
  /\ Len(CurrentListeners) = 2
  /\ CurrentListeners[1] = op.l

\* C28: an add for a kind whose key is in the ATSManager's map throws
\* "<class> has already been initialized." and leaves the entry, the manager
\* it holds and that manager's state as they were.
C28_SecondAddRejected ==
  [][(sut = "registry" /\ op'.name = "add" /\ rRef[op'.l][op'.a.f] # 0) =>
       /\ op'.err = KindName(op'.a.f) \o " has already been initialized."
       /\ rRef' = rRef
       /\ rState' = rState
       /\ gInst' = gInst
       /\ gState' = gState]_vars

\* addProxyState({count: 1}) was rejected on an ATSManager whose proxy
\* manager holds {count: 0}.
C28_Witness ==
  /\ sut = "registry"
  /\ op.name = "add"
  /\ op.a.f = "proxy"
  /\ op.a.v = P(1)
  /\ op.err = "ProxyStateManager has already been initialized."
  /\ rRef[op.l]["proxy"] = 1
  /\ rState[op.l]["proxy"] = P(0)

\* C29: getStateManager(kind) throws "State manager of type '<kind>' does
\* not exist." when kind's key is not in the map, and otherwise returns the
\* manager the map holds.
C29_GetStateManager ==
  (sut = "registry" /\ op.name = "get") =>
    IF rRef[op.l][op.a.f] = 0
    THEN op.err = "State manager of type '" \o op.a.f \o "' does not exist."
    ELSE /\ op.err = ""
         /\ op.a.v = Num(rRef[op.l][op.a.f])

\* getStateManager("proxy") threw on an ATSManager that holds a global
\* manager, the other ATSManager holding a proxy manager.
C29_Witness ==
  /\ sut = "registry"
  /\ op.name = "get"
  /\ op.a.f = "proxy"
  /\ op.err = "State manager of type 'proxy' does not exist."
  /\ rRef[op.l]["global"] # 0
  /\ \E m \in Managers : rRef[m]["proxy"] # 0

\* C30: a setState on the manager of one ATSManager does not change the
\* state of the manager of the same kind held by another ATSManager, and
\* addGlobalState(x), addProxyState(x), addComponentState(x) on an
\* ATSManager that holds nothing yet gives a manager whose state is x.
C30_ManagersIndependent ==
  [][sut = "registry" =>
       /\ op'.name = "setState" =>
            \A m \in Managers \ {op'.l} :
              rRef[m][rKind] # 0 =>
                (IF rKind = "global" THEN gState' ELSE rState'[m][rKind])
                  = Registry_state(m, rKind)
       /\ (op'.name = "add" /\ op'.err = "" /\ op'.a.f # "stateMachine"
             /\ \A kind \in Kinds : rRef[op'.l][kind] = 0) =>
            (IF op'.a.f = "global" THEN gState'
             ELSE rState'[op'.l][op'.a.f]) = op'.a.v]_vars

C32_RaisingFlush ==
  [][(sut = "proxyActive" /\ active \in {"raise", "calm"}) =>
       /\ (op'.name = "endBatchUpdates" /\ active = "raise"
             /\ 1 \in Range(pendingNotifications)) =>
            LET at == CHOOSE i \in 1..Len(pendingNotifications) :
                        pendingNotifications[i] = 1
            IN  /\ op'.err = ListenerError
                /\ invoked' = InvokeEach(SubSeq(pendingNotifications, 1, at),
                                         pState, pState)
                /\ isBatchingUpdates /\ isBatchingUpdates'
                /\ pendingNotifications' = pendingNotifications
                /\ pState' = pState
       /\ (isBatchingUpdates /\ op'.name \in {"setState", "set"}) =>
            invoked' = <<>> /\ op'.err = "" /\ isBatchingUpdates'
       /\ (isBatchingUpdates /\ ~isBatchingUpdates') =>
            /\ op'.name = "endBatchUpdates"
            /\ op'.err = ""
            /\ pendingNotifications' = <<>>
            /\ invoked' = InvokeEach(pendingNotifications, pState, pState)]_vars

\* endBatchUpdates threw the Error of the second of two queued listeners:
\* the first was called, both are still queued, the container is batching.
C32_Witness ==
  /\ sut = "proxyActive"
  /\ active = "raise"
  /\ op = Throw("endBatchUpdates", 0, None, ListenerError)
  /\ pendingNotifications = <<2, 1>>
  /\ isBatchingUpdates
  /\ Len(invoked) = 2
  /\ invoked[1].l = 2

\* C33 as stated: a change of the state made by a listener that the flush
\* of endBatchUpdates calls invokes no listener at once, and what it queued
\* is discarded when the flush clears the queue: the flush calls the
\* listeners that were queued when it began, each once, those up to the
\* changing listener with the state before the change, the others with the
\* changed state, and nobody else.
C33_ReentrantChangeDiscarded ==
  [][(sut = "proxyActive" /\ active \in {"setState", "write"}
        /\ op'.name = "endBatchUpdates"
        /\ 1 \in Range(pendingNotifications)
        /\ JsonObject(pState') # JsonObject(pState)) =>
       LET at == CHOOSE i \in 1..Len(pendingNotifications) :
                   pendingNotifications[i] = 1
       IN  /\ op'.err = ""
           /\ invoked' =
                InvokeEach(SubSeq(pendingNotifications, 1, at), pState, pState)
                \o InvokeEach(SubSeq(pendingNotifications, at + 1,
                                     Len(pendingNotifications)),
                              pState', pState')
           /\ pendingNotifications' = <<>>
           /\ ~isBatchingUpdates']_vars

\* C33, amended: such a change invokes no listener at once and queues the
\* registered listeners that are not in the queue; the flush goes on over
\* the queue so extended.  It calls the listeners that were queued when it
\* began, each once, those up to the changing listener with the state
\* before the change (they are never told of the change), the others with
\* the changed state, and then, with the changed state, the registered
\* listeners that were not queued, in the order of their registration.  The
\* queue is empty and batching off afterwards.
C33_ReentrantChangeQueued ==
  [][(sut = "proxyActive" /\ active \in {"setState", "write"}
        /\ op'.name = "endBatchUpdates"
        /\ 1 \in Range(pendingNotifications)
        /\ JsonObject(pState') # JsonObject(pState)) =>
       LET at == CHOOSE i \in 1..Len(pendingNotifications) :
                   pendingNotifications[i] = 1
           late == SelectSeq(pListeners,
                             LAMBDA l : l \notin Range(pendingNotifications))
       IN  /\ op'.err = ""
           /\ isBatchingUpdates
           /\ pState'["count"] = Num(0)
           /\ invoked' =
                InvokeEach(SubSeq(pendingNotifications, 1, at), pState, pState)
                \o InvokeEach(SubSeq(pendingNotifications, at + 1,
                                     Len(pendingNotifications)) \o late,
                              pState', pState')
           /\ pendingNotifications' = <<>>
           /\ ~isBatchingUpdates']_vars

\* The flush called listener 1 with { count: 1 }, listener 1 set the state
\* to { count: 0 }, and the flush then called listener 2 with { count: 0 }.
C33_Witness ==
  /\ sut = "proxyActive"
  /\ active = "setState"
  /\ op = Op("endBatchUpdates", 0, None)
  /\ pListeners = <<1, 2>>
  /\ Len(invoked) = 2
  /\ invoked[1].l = 1
  /\ invoked[1].arg["count"] = Num(1)
  /\ invoked[2].l = 2
  /\ invoked[2].arg = ResetState
  /\ pState = ResetState
  /\ pendingNotifications = <<>>
  /\ ~isBatchingUpdates

\* C34: endBatchUpdates calls every listener in the pending queue, once
\* and with the current state, whenever a mutation made in the batch
\* changed the JSON text of the state, also when the state has at
\* endBatchUpdates the JSON text it had at beginBatchUpdates; it calls no
\* listener when no mutation made in the batch changed that text.
C34_FlushFollowsMutations ==
  [][(sut = "proxy" /\ op'.name = "endBatchUpdates") =>
       /\ (mutated.open /\ mutated.any) =>
            invoked' = InvokeEach(pendingNotifications, pState, pState)
       /\ (batch.open /\ batch.onlySets /\ batch.any) =>
            /\ mutated.open /\ mutated.any
            /\ Range(batch.subs) \subseteq InvokedSet(invoked')
       /\ ~(mutated.open /\ mutated.any) => invoked' = <<>>]_vars

\* endBatchUpdates called two listeners at the end of a batch of setState
\* calls that left the state with the JSON text it had at
\* beginBatchUpdates.
C34_Witness ==
  /\ sut = "proxy"
  /\ op.name = "endBatchUpdates"
  /\ ~mutated.open
  /\ mutated.any
  /\ mutated.began = JsonObject(pState)
  /\ batch.onlySets
  /\ batch.any
  /\ Len(batch.subs) >= 2
  /\ Len(invoked) >= 2

\* C35: a setState on a ComponentStateManager or on the GlobalStateManager
\* during which a listener throws ends with that Error thrown to the
\* caller; the stored value is the new value, which the listeners called
\* saw already; the listeners before the one that threw and that one were
\* called, in order, and none of those after it.
C35_RaisingListener ==
  [][(sut \in {"componentActive", "globalActive"} /\ op'.name = "setState") =>
       LET ls == IF sut = "componentActive" THEN cListeners ELSE gListeners
           old == IF sut = "componentActive" THEN cState ELSE gState
           new == IF sut = "componentActive" THEN cState' ELSE gState'
           at == CHOOSE i \in 1..Len(ls) : ls[i] = 1
       IN  /\ new = (IF op'.a.f = "lit" THEN op'.a.v ELSE Num(old.n + 1))
           /\ IF active = "raise" /\ 1 \in Range(ls)
              THEN /\ op'.err = ListenerError
                   /\ Len(invoked') = at
                   /\ \A i \in 1..at :
                        invoked'[i].l = ls[i] /\ invoked'[i].seen = new
              ELSE /\ op'.err = ""
                   /\ Len(invoked') = Len(ls)]_vars

\* setState(1) on a ComponentStateManager threw the Error of the first of
\* two listeners: the value is 1, the second listener was not called.
C35_Witness ==
  /\ sut = "componentActive"
  /\ op = Throw("setState", 0, Lit(Num(1)), ListenerError)
  /\ cListeners = <<1, 2>>
  /\ initial = Num(0)
  /\ Len(applied) = 1
  /\ cState = Num(1)
  /\ Len(invoked) = 1
  /\ invoked[1].l = 1
  /\ invoked[1].seen = Num(1)

====
